---- MODULE Spec2Model ----
(***************************************************************************)
(* Model of supadata/client.py: the Supadata client's constructor, its     *)
(* gateway-error table, the camelCase -> snake_case key normalisation and  *)
(* the _request pipeline.                                                  *)
(*                                                                         *)
(* Mapping keys, JSON strings and API keys are sequences of one-character  *)
(* strings, so that the two regular-expression substitutions, strip() and  *)
(* the substring tests of the source are computed character by character.  *)
(* Paths, URLs and header values are sequences of text fragments, and the  *)
(* substring tests on them are computed fragment by fragment.  A response  *)
(* body is a pair of its raw text and of the value json() decodes it to.   *)
(***************************************************************************)
EXTENDS Integers, Sequences, FiniteSets, TLC

VARIABLES
    pc,          \* position of the client: "new", "init_failed", "ready",
                 \* "responded", "after_gateway", "after_transcript"
    api_key,     \* the api_key argument given to __init__
    base_url,    \* self.base_url ("" while unset)
    headers,     \* self.session.headers entries set by the client
    path,        \* path argument of the current _request call
    response,    \* the response object of the current call
    outcome,     \* how the last operation ended: a return or a raised error
    steps,       \* the blocks of _request the current call has executed
    sent,        \* HTTP requests issued during the current call
    ended,       \* outcomes produced by the current call
    netRequests, \* HTTP requests issued since the process started
    doc,         \* argument of a direct _camel_to_snake call
    out1,        \* _camel_to_snake(doc)
    out2         \* _camel_to_snake(_camel_to_snake(doc))

vars == <<pc, api_key, base_url, headers, path, response, outcome, steps,
          sent, ended, netRequests, doc, out1, out2>>

(***************************************************************************)
(* Bounds of the model.                                                    *)
(***************************************************************************)
MaxKeyLen == 3      \* longest mapping key drawn for _camel_to_snake
MaxInnerKeyLen == 2 \* longest second key drawn for it
MaxApiKeyLen == 9   \* longest api_key drawn for __init__
MaxCalls == 2       \* _request calls made on one client

(***************************************************************************)
(* Characters.                                                             *)
(***************************************************************************)
UpperSeq == <<"A","B","C","D","E","F","G","H","I","J","K","L","M",
              "N","O","P","Q","R","S","T","U","V","W","X","Y","Z">>
LowerSeq == <<"a","b","c","d","e","f","g","h","i","j","k","l","m",
              "n","o","p","q","r","s","t","u","v","w","x","y","z">>
Upper == {UpperSeq[i] : i \in 1..Len(UpperSeq)}
Lower == {LowerSeq[i] : i \in 1..Len(LowerSeq)}
Digit == {"0","1","2","3","4","5","6","7","8","9"}
Whitespace == {" ", "\t", "\n"}

\* str.lower() on one character
LowerChar(c) ==
    IF c \in Upper
    THEN LowerSeq[CHOOSE i \in 1..Len(UpperSeq) : UpperSeq[i] = c]
    ELSE c

\* str.lower()
LowerStr(s) == [i \in 1..Len(s) |-> LowerChar(s[i])]

\* All texts over alphabet A of length at most n
TextsUpTo(A, n) == UNION {[1..m -> A] : m \in 0..n}

\* sub in s (Python's `sub in s` on str)
Contains(s, sub) ==
    \E i \in 0..(Len(s) - Len(sub)) : SubSeq(s, i + 1, i + Len(sub)) = sub

(***************************************************************************)
(* convert: the two re.sub passes and the final lower().                   *)
(***************************************************************************)
\* end of the greedy run [a-z]+ that starts at position i
RECURSIVE LowerRunEnd(_, _)
LowerRunEnd(s, i) ==
    IF i < Len(s) /\ s[i + 1] \in Lower THEN LowerRunEnd(s, i + 1) ELSE i

\* '(.)([A-Z][a-z]+)' matches at position i
Match1(s, i) ==
    /\ i + 2 <= Len(s)
    /\ s[i] # "\n"
    /\ s[i + 1] \in Upper
    /\ s[i + 2] \in Lower

\* re.sub('(.)([A-Z][a-z]+)', r'\1_\2', s), scanning from position i
RECURSIVE Sub1From(_, _)
Sub1From(s, i) ==
    IF i > Len(s) THEN <<>>
    ELSE IF Match1(s, i)
         THEN LET e == LowerRunEnd(s, i + 2)
              IN  <<s[i], "_">> \o SubSeq(s, i + 1, e) \o Sub1From(s, e + 1)
         ELSE <<s[i]>> \o Sub1From(s, i + 1)

\* '([a-z0-9])([A-Z])' matches at position i
Match2(s, i) ==
    /\ i + 1 <= Len(s)
    /\ s[i] \in (Lower \cup Digit)
    /\ s[i + 1] \in Upper

\* re.sub('([a-z0-9])([A-Z])', r'\1_\2', s), scanning from position i
RECURSIVE Sub2From(_, _)
Sub2From(s, i) ==
    IF i > Len(s) THEN <<>>
    ELSE IF Match2(s, i)
         THEN <<s[i], "_", s[i + 1]>> \o Sub2From(s, i + 2)
         ELSE <<s[i]>> \o Sub2From(s, i + 1)

\* convert with the final .lower() left out
convertNoLower(name) == Sub2From(Sub1From(name, 1), 1)

convert(name) == LowerStr(Sub2From(Sub1From(name, 1), 1))

(***************************************************************************)
(* JSON values.  A value is [kind, val, items]: kind is "dict", "list",    *)
(* "str", "num", "bool" or "null"; val is the text of a scalar; items is   *)
(* the sequence of entries [k, v] of a dict in insertion order, or of a    *)
(* list (k is then the empty text).  NotJSON stands for a body that        *)
(* json() cannot decode.                                                   *)
(***************************************************************************)
Str(s) == [kind |-> "str", val |-> s, items |-> <<>>]
Num(s) == [kind |-> "num", val |-> s, items |-> <<>>]
Null == [kind |-> "null", val |-> <<>>, items |-> <<>>]
Dict(es) == [kind |-> "dict", val |-> <<>>, items |-> es]
List(vs) == [kind |-> "list", val |-> <<>>,
             items |-> [i \in 1..Len(vs) |-> [k |-> <<>>, v |-> vs[i]]]]
NotJSON == [kind |-> "invalid", val |-> <<>>, items |-> <<>>]

Entry(k, v) == [k |-> k, v |-> v]

\* keys of a dict, as a set
KeysOf(d) == {d.items[i].k : i \in 1..Len(d.items)}

\* key in d
HasKey(d, k) == \E i \in 1..Len(d.items) : d.items[i].k = k

\* d[k]
Get(d, k) == d.items[CHOOSE i \in 1..Len(d.items) : d.items[i].k = k].v

\* d[k] = v on a dict's entries: an existing key keeps its place
SetItem(es, k, v) ==
    IF \E i \in 1..Len(es) : es[i].k = k
    THEN [i \in 1..Len(es) |-> IF es[i].k = k THEN Entry(k, v) ELSE es[i]]
    ELSE Append(es, Entry(k, v))

\* the dict a comprehension builds from the first n of the pairs ps
RECURSIVE Collect(_, _)
Collect(ps, n) ==
    IF n = 0 THEN <<>>
    ELSE SetItem(Collect(ps, n - 1), ps[n].k, ps[n].v)

\* _camel_to_snake
RECURSIVE camel_to_snake(_)
camel_to_snake(d) ==
    IF d.kind = "dict"
    THEN Dict(Collect([i \in 1..Len(d.items) |->
                         Entry(convert(d.items[i].k),
                               camel_to_snake(d.items[i].v))],
                      Len(d.items)))
    ELSE IF d.kind = "list"
    THEN [d EXCEPT !.items = [i \in 1..Len(d.items) |->
                         Entry(<<>>, camel_to_snake(d.items[i].v))]]
    ELSE d

(***************************************************************************)
(* Outcomes of an operation: what it returned or the exception it raised.  *)
(***************************************************************************)
NoOutcome == [kind |-> "none"]
Returned(v) == [kind |-> "return", value |-> v]
SupadataError(code, title, description) ==
    [kind |-> "SupadataError", code |-> code, title |-> title,
     description |-> description]
HTTPError(arg) == [kind |-> "HTTPError", arg |-> arg]
JSONDecodeError == [kind |-> "JSONDecodeError"]
TypeError == [kind |-> "TypeError"]
ConnectionError == [kind |-> "ConnectionError"]

\* the HTTPError that response.raise_for_status() raises for a response
StatusError(r) == HTTPError([cls |-> "raise_for_status", status |-> r.status])

(***************************************************************************)
(* __init__                                                                *)
(***************************************************************************)
MinKeyLen == 8

\* str.strip()
RECURSIVE Strip(_)
Strip(s) ==
    IF Len(s) = 0 THEN s
    ELSE IF s[1] \in Whitespace THEN Strip(Tail(s))
    ELSE IF s[Len(s)] \in Whitespace THEN Strip(SubSeq(s, 1, Len(s) - 1))
    ELSE s

\* the guard with the strip() left out
InvalidKeyNoStrip(k) == Len(k) = 0 \/ Len(k) < MinKeyLen

\* not api_key or len(api_key.strip()) < 8
InvalidKey(k) == Len(k) = 0 \/ Len(Strip(k)) < MinKeyLen

DefaultBaseUrl == <<"https://api.supadata.ai/v1">>
JsonType == <<"application/json">>

\* the entries session.headers.update writes
SessionHeaders(k) ==
    {[name |-> "x-api-key", value |-> k],
     [name |-> "Accept", value |-> JsonType]}

(***************************************************************************)
(* _handle_gateway_error: the outcome of the call, NoOutcome when it       *)
(* returns without raising.  error_text is a string; "" is falsy.          *)
(***************************************************************************)
OrElse(error_text, fallback) == IF error_text = "" THEN fallback ELSE error_text

\* the table with the 404 row raising the 429 error
handle_gateway_error_swapped(status_code, error_text) ==
    IF status_code = 403
    THEN SupadataError("invalid-request", "Invalid or missing API key",
             OrElse(error_text, "Please ensure you have provided a valid API key"))
    ELSE IF status_code \in {404, 429}
    THEN SupadataError("limit-exceeded", "Limit exceeded",
             OrElse(error_text,
                    "You have exceeded the allowed request rate or quota limits"))
    ELSE NoOutcome

handle_gateway_error(status_code, error_text) ==
    IF status_code = 403
    THEN SupadataError("invalid-request", "Invalid or missing API key",
             OrElse(error_text, "Please ensure you have provided a valid API key"))
    ELSE IF status_code = 404
    THEN SupadataError("invalid-request", "Endpoint does not exist",
             OrElse(error_text,
                    "The API endpoint you are trying to access does not exist"))
    ELSE IF status_code = 429
    THEN SupadataError("limit-exceeded", "Limit exceeded",
             OrElse(error_text,
                    "You have exceeded the allowed request rate or quota limits"))
    ELSE NoOutcome

(***************************************************************************)
(* types.Error: the record built by unpacking error_data into Error.  A   *)
(* non-mapping argument of the unpacking is a TypeError in Python itself;  *)
(* the accepted fields are those of the error record.                      *)
(***************************************************************************)
ErrorKey == <<"e","r","r","o","r">>
CodeKey == <<"c","o","d","e">>
TitleKey == <<"t","i","t","l","e">>
DescriptionKey == <<"d","e","s","c","r","i","p","t","i","o","n">>
NoTranscriptMsg == <<"N","o"," ","t","r","a","n","s","c","r","i","p","t"," ",
                     "a","v","a","i","l","a","b","l","e">>

ErrorFields == {CodeKey, TitleKey, DescriptionKey}

\* unpacking error_data into Error succeeds
ErrorAccepts(error_data) ==
    error_data.kind = "dict" /\ KeysOf(error_data) = ErrorFields

\* the record the unpacking builds
NewError(error_data) ==
    [cls |-> "Error",
     code |-> Get(error_data, CodeKey),
     title |-> Get(error_data, TitleKey),
     description |-> Get(error_data, DescriptionKey)]

(***************************************************************************)
(* The blocks of _request.                                                 *)
(***************************************************************************)
GatewayStatuses == {403, 404, 429}

\* the gateway test with the content-type test left out
GatewayCondAnyType(r) == r.status \in GatewayStatuses

\* lines 98-100: the gateway handler is called
GatewayCond(r) ==
    r.status \in GatewayStatuses /\ ~Contains(r.content_type, JsonType)

\* line 104
TranscriptCond(r, p) == r.status = 206 /\ Contains(p, <<"/transcript">>)

\* 'error' in error_data, TypeError when error_data is not a container
ErrorIn(error_data) ==
    CASE error_data.kind = "dict" -> HasKey(error_data, ErrorKey)
      [] error_data.kind = "list" ->
            \E i \in 1..Len(error_data.items) :
                error_data.items[i].v = Str(ErrorKey)
      [] error_data.kind = "str" -> Contains(error_data.val, ErrorKey)
      [] OTHER -> FALSE

\* lines 105-108
TranscriptOutcome(r) ==
    IF r.body.json = NotJSON THEN JSONDecodeError
    ELSE LET error_data == camel_to_snake(r.body.json)
         IN  IF error_data.kind \notin {"dict", "list", "str"} THEN TypeError
             ELSE IF ErrorIn(error_data)
                  THEN IF error_data.kind = "dict"
                       THEN HTTPError(Get(error_data, ErrorKey))
                       ELSE TypeError
                  ELSE HTTPError(Str(NoTranscriptMsg))

\* the except branch building an error from whatever fields are there
GenericFailureLenient(r) ==
    IF r.body.json = NotJSON THEN StatusError(r)
    ELSE LET error_data == camel_to_snake(r.body.json)
         IN  IF error_data.kind = "dict"
             THEN HTTPError([cls |-> "Error",
                     code |-> IF HasKey(error_data, CodeKey)
                              THEN Get(error_data, CodeKey) ELSE Null,
                     title |-> IF HasKey(error_data, TitleKey)
                               THEN Get(error_data, TitleKey) ELSE Null,
                     description |-> IF HasKey(error_data, DescriptionKey)
                                     THEN Get(error_data, DescriptionKey)
                                     ELSE Null])
             ELSE StatusError(r)

\* lines 113-121
GenericFailure(r) ==
    IF r.body.json = NotJSON THEN StatusError(r)
    ELSE LET error_data == camel_to_snake(r.body.json)
         IN  IF ErrorAccepts(error_data)
             THEN HTTPError(NewError(error_data))
             ELSE StatusError(r)

\* raise_for_status() raises
IsErrorStatus(status) == 400 <= status /\ status < 600

\* the success branch returning the decoded body as it is
GenericOutcomeRaw(r) ==
    IF IsErrorStatus(r.status) THEN GenericFailure(r)
    ELSE IF r.body.json = NotJSON THEN JSONDecodeError
    ELSE Returned(r.body.json)

\* lines 110-121
GenericOutcome(r) ==
    IF IsErrorStatus(r.status) THEN GenericFailure(r)
    ELSE IF r.body.json = NotJSON THEN JSONDecodeError
    ELSE Returned(camel_to_snake(r.body.json))

(***************************************************************************)
(* Inputs.                                                                 *)
(***************************************************************************)
ApiKeyAlphabet == {"k", " "}
AllApiKeys == TextsUpTo(ApiKeyAlphabet, MaxApiKeyLen)
SampleApiKeys == {<<>>, <<"k","k","k","k","k","k","k">>, <<"k","k","k","k","k","k","k","k">>,
                  <<" ","k","k","k","k","k","k","k"," ">>}
BaseUrls == {DefaultBaseUrl, <<"http://localhost:8000">>}

Statuses == {200, 204, 206, 400, 403, 404, 429, 500}
ContentTypes == {<<>>, <<"text/plain">>, JsonType,
                 <<"application/json", "; charset=utf-8">>}
Paths == {<<"/youtube", "/transcript", "/translate">>,
          <<"/youtube", "/video">>}

Body(text, json) == [text |-> text, json |-> json]

ErrorObject(code, title, description) ==
    Dict(<<Entry(CodeKey, Str(code)), Entry(TitleKey, Str(title)),
           Entry(DescriptionKey, Str(description))>>)

Bodies == {
    Body("", NotJSON),
    Body("forbidden", NotJSON),
    Body("<html>Not Found</html>", NotJSON),
    Body("{\"error\": {\"code\": \"limit-exceeded\", \"title\": \"x\", \"description\": \"y\"}}",
         Dict(<<Entry(ErrorKey, ErrorObject(<<"l","i","m","i","t","-","e","x","c","e","e","d","e","d">>, <<"x">>, <<"y">>))>>)),
    Body("{\"error\": {\"code\": \"no-captions\", \"title\": \"t\", \"description\": \"d\"}}",
         Dict(<<Entry(ErrorKey, ErrorObject(<<"n","o","-","c","a","p","t","i","o","n","s">>, <<"t">>, <<"d">>))>>)),
    Body("{\"Error\": {\"errorCode\": \"x\"}}",
         Dict(<<Entry(<<"E","r","r","o","r">>, Dict(<<Entry(<<"e","r","r","o","r","C","o","d","e">>, Str(<<"x">>))>>))>>)),
    Body("{\"code\": \"limit-exceeded\", \"title\": \"x\", \"description\": \"y\"}",
         ErrorObject(<<"l","i","m","i","t","-","e","x","c","e","e","d","e","d">>, <<"x">>, <<"y">>)),
    Body("{\"Code\": \"not-found\", \"Title\": \"t\", \"Description\": \"d\"}",
         Dict(<<Entry(<<"C","o","d","e">>, Str(<<"n","o","t","-","f","o","u","n","d">>)), Entry(<<"T","i","t","l","e">>, Str(<<"t">>)),
                Entry(<<"D","e","s","c","r","i","p","t","i","o","n">>, Str(<<"d">>))>>)),
    Body("{\"code\": \"not-found\", \"title\": \"x\"}",
         Dict(<<Entry(CodeKey, Str(<<"n","o","t","-","f","o","u","n","d">>)), Entry(TitleKey, Str(<<"x">>))>>)),
    Body("{\"code\": \"not-found\", \"title\": \"x\", \"description\": \"y\", \"documentationUrl\": \"d\"}",
         Dict(<<Entry(CodeKey, Str(<<"n","o","t","-","f","o","u","n","d">>)), Entry(TitleKey, Str(<<"x">>)),
                Entry(DescriptionKey, Str(<<"y">>)),
                Entry(<<"d","o","c","u","m","e","n","t","a","t","i","o","n","U","r","l">>, Str(<<"d">>))>>)),
    Body("{}", Dict(<<>>)),
    Body("{\"videoTitle\": \"Foo\", \"items\": [{\"viewCount\": 5}]}",
         Dict(<<Entry(<<"v","i","d","e","o","T","i","t","l","e">>, Str(<<"F","o","o">>)),
                Entry(<<"i","t","e","m","s">>, List(<<Dict(<<Entry(<<"v","i","e","w","C","o","u","n","t">>, Num(<<"5">>))>>)>>))>>)),
    Body("{\"videoId\": 1, \"video_id\": 2}",
         Dict(<<Entry(<<"v","i","d","e","o","I","d">>, Num(<<"1">>)), Entry(<<"v","i","d","e","o","_","i","d">>, Num(<<"2">>))>>)),
    Body("[\"error\"]", List(<<Str(ErrorKey)>>)),
    Body("[]", List(<<>>)),
    Body("\"an error\"", Str(<<"a","n"," ","e","r","r","o","r">>)),
    Body("\"ok\"", Str(<<"o","k">>)),
    Body("5", Num(<<"5">>)),
    Body("null", Null)}

Responses ==
    {[status |-> st, content_type |-> ct, body |-> b] :
        st \in Statuses, ct \in ContentTypes, b \in Bodies}

NoResponse == [status |-> 0, content_type |-> <<>>, body |-> Body("", NotJSON)]

\* Documents drawn for a direct _camel_to_snake call
KeyAlphabet == {"a", "A", "0", "_"}

OuterKeys == TextsUpTo(KeyAlphabet, MaxKeyLen)
InnerKeys == TextsUpTo(KeyAlphabet, MaxInnerKeyLen)
DocShapes == {"flat", "nested", "in_list", "list"}

\* the dict json() builds from the pairs of an object, a repeated key
\* keeping its last value
DictOf(es) == Dict(Collect(es, Len(es)))

\* a document of the given shape over the keys k1 and k2
MakeDoc(shape, k1, k2) ==
    LET flat == DictOf(<<Entry(k1, Num(<<"1">>)), Entry(k2, Num(<<"2">>))>>)
    IN  CASE shape = "flat" -> flat
          [] shape = "nested" ->
                DictOf(<<Entry(k2, flat), Entry(k1, Str(<<"a","A">>))>>)
          [] shape = "in_list" ->
                DictOf(<<Entry(k1, List(<<flat, Str(k2)>>))>>)
          [] shape = "list" ->
                List(<<Num(<<"1">>), DictOf(<<Entry(k2, Null)>>), flat>>)

(***************************************************************************)
(* The client.                                                             *)
(***************************************************************************)
Init ==
    /\ pc = "new"
    /\ api_key = <<>>
    /\ base_url = <<>>
    /\ headers = {}
    /\ path = <<>>
    /\ response = NoResponse
    /\ outcome = NoOutcome
    /\ steps = <<>>
    /\ sent = 0
    /\ ended = 0
    /\ netRequests = 0
    /\ doc = Null
    /\ out1 = Null
    /\ out2 = Null

\* __init__(api_key, base_url)
New(k, b) ==
    /\ pc = "new"
    /\ api_key' = k
    /\ LET raised == IF InvalidKey(k)
                     THEN handle_gateway_error(403, "Invalid API key format")
                     ELSE NoOutcome
       IN  IF raised.kind # "none"
           THEN /\ outcome' = raised
                /\ pc' = "init_failed"
                /\ UNCHANGED <<base_url, headers>>
           ELSE /\ base_url' = b
                /\ headers' = SessionHeaders(k)
                /\ pc' = "ready"
                /\ UNCHANGED outcome
    /\ UNCHANGED <<path, response, steps, sent, ended, netRequests,
                   doc, out1, out2>>

Construct == \E k \in SampleApiKeys, b \in BaseUrls : New(k, b)

ConstructAny == \E k \in AllApiKeys, b \in BaseUrls : New(k, b)

\* lines 94-95: the request is issued and a response arrives
Send ==
    /\ pc = "ready"
    /\ netRequests < MaxCalls
    /\ \E p \in Paths, r \in Responses :
          /\ path' = p
          /\ response' = r
    /\ pc' = "responded"
    /\ outcome' = NoOutcome
    /\ steps' = <<>>
    /\ sent' = 1
    /\ ended' = 0
    /\ netRequests' = netRequests + 1
    /\ UNCHANGED <<api_key, base_url, headers, doc, out1, out2>>

\* line 95: session.request raises instead of returning a response
SendFails ==
    /\ pc = "ready"
    /\ netRequests < MaxCalls
    /\ \E p \in Paths : path' = p
    /\ response' = NoResponse
    /\ pc' = "ready"
    /\ outcome' = ConnectionError
    /\ steps' = <<>>
    /\ sent' = 1
    /\ ended' = 1
    /\ netRequests' = netRequests + 1
    /\ UNCHANGED <<api_key, base_url, headers, doc, out1, out2>>

\* lines 98-101
GatewayCheck ==
    /\ pc = "responded"
    /\ steps' = Append(steps, "gateway")
    /\ LET raised == IF GatewayCond(response)
                     THEN handle_gateway_error(response.status,
                                               response.body.text)
                     ELSE NoOutcome
       IN  IF raised.kind # "none"
           THEN /\ outcome' = raised
                /\ ended' = ended + 1
                /\ pc' = "ready"
           ELSE /\ pc' = "after_gateway"
                /\ UNCHANGED <<outcome, ended>>
    /\ UNCHANGED <<api_key, base_url, headers, path, response, sent,
                   netRequests, doc, out1, out2>>

\* lines 104-108
TranscriptCheck ==
    /\ pc = "after_gateway"
    /\ steps' = Append(steps, "transcript")
    /\ IF TranscriptCond(response, path)
       THEN /\ outcome' = TranscriptOutcome(response)
            /\ ended' = ended + 1
            /\ pc' = "ready"
       ELSE /\ pc' = "after_transcript"
            /\ UNCHANGED <<outcome, ended>>
    /\ UNCHANGED <<api_key, base_url, headers, path, response, sent,
                   netRequests, doc, out1, out2>>

\* generic handling that issues the request again after an error status
GenericHandlingRetry ==
    /\ pc = "after_transcript"
    /\ IF IsErrorStatus(response.status) /\ sent < 2
       THEN /\ sent' = sent + 1
            /\ netRequests' = netRequests + 1
            /\ pc' = "responded"
            /\ steps' = <<>>
            /\ UNCHANGED <<outcome, ended>>
       ELSE /\ steps' = Append(steps, "generic")
            /\ outcome' = GenericOutcome(response)
            /\ ended' = ended + 1
            /\ pc' = "ready"
            /\ UNCHANGED <<sent, netRequests>>
    /\ UNCHANGED <<api_key, base_url, headers, path, response,
                   doc, out1, out2>>

\* lines 110-121
GenericHandling ==
    /\ pc = "after_transcript"
    /\ steps' = Append(steps, "generic")
    /\ outcome' = GenericOutcome(response)
    /\ ended' = ended + 1
    /\ pc' = "ready"
    /\ UNCHANGED <<api_key, base_url, headers, path, response, sent,
                   netRequests, doc, out1, out2>>

Next ==
    \/ Construct
    \/ Send
    \/ SendFails
    \/ GatewayCheck
    \/ TranscriptCheck
    \/ GenericHandling

Spec == Init /\ [][Next]_vars

\* construction alone, over every api_key of the bound
NextKey == ConstructAny

SpecKey == Init /\ [][NextKey]_vars

(***************************************************************************)
(* Direct calls of _camel_to_snake.                                        *)
(***************************************************************************)
InitNorm ==
    /\ pc = "norm_input"
    /\ api_key = <<>>
    /\ base_url = <<>>
    /\ headers = {}
    /\ path = <<>>
    /\ response = NoResponse
    /\ outcome = NoOutcome
    /\ steps = <<>>
    /\ sent = 0
    /\ ended = 0
    /\ netRequests = 0
    /\ \E shape \in DocShapes, k1 \in OuterKeys, k2 \in InnerKeys :
          doc = MakeDoc(shape, k1, k2)
    /\ out1 = Null
    /\ out2 = Null

Normalize ==
    /\ pc = "norm_input"
    /\ out1' = camel_to_snake(doc)
    /\ pc' = "normalized"
    /\ UNCHANGED <<api_key, base_url, headers, path, response, outcome,
                   steps, sent, ended, netRequests, doc, out2>>

Renormalize ==
    /\ pc = "normalized"
    /\ out2' = camel_to_snake(out1)
    /\ pc' = "renormalized"
    /\ UNCHANGED <<api_key, base_url, headers, path, response, outcome,
                   steps, sent, ended, netRequests, doc, out1>>

NextNorm == Normalize \/ Renormalize

SpecNorm == InitNorm /\ [][NextNorm]_vars

(***************************************************************************)
(* Properties.                                                             *)
(***************************************************************************)
\* a _request call has ended with a response received
CallDone == pc = "ready" /\ sent = 1 /\ outcome.kind # "ConnectionError"

InCall == pc \in {"responded", "after_gateway", "after_transcript"}

OnTranscriptPath == Contains(path, <<"/transcript">>)

DeclaresJson == Contains(response.content_type, <<"application/json">>)

\* C1: a 403, 404 or 429 response whose content type does not include
\* application/json (or is missing) ends the call with the SupadataError of
\* the fixed table for its status, the description being the body text when
\* that is non-empty and the fixed fallback message otherwise.
C1_GatewayTable ==
    (CallDone /\ response.status \in {403, 404, 429} /\ ~DeclaresJson) =>
        /\ outcome.kind = "SupadataError"
        /\ outcome.code = (IF response.status = 429 THEN "limit-exceeded"
                           ELSE "invalid-request")
        /\ outcome.title =
              (CASE response.status = 403 -> "Invalid or missing API key"
                 [] response.status = 404 -> "Endpoint does not exist"
                 [] response.status = 429 -> "Limit exceeded")
        /\ outcome.description =
              (IF response.body.text # "" THEN response.body.text
               ELSE CASE response.status = 403 ->
                           "Please ensure you have provided a valid API key"
                      [] response.status = 404 ->
                           "The API endpoint you are trying to access does not exist"
                      [] response.status = 429 ->
                           "You have exceeded the allowed request rate or quota limits")

C1_Witness ==
    /\ CallDone
    /\ response.status = 403
    /\ response.content_type = <<"text/plain">>
    /\ response.body.text = "forbidden"
    /\ outcome.kind = "SupadataError"
    /\ outcome.code = "invalid-request"
    /\ outcome.title = "Invalid or missing API key"
    /\ outcome.description = "forbidden"

\* the body is {"error": {"code": c, "title": t, "description": d}}
IsWrappedError(j) ==
    /\ j.kind = "dict"
    /\ KeysOf(j) = {ErrorKey}
    /\ Get(j, ErrorKey).kind = "dict"
    /\ KeysOf(Get(j, ErrorKey)) = {CodeKey, TitleKey, DescriptionKey}

\* C2: a 403, 404 or 429 response with content type application/json whose
\* body is {"error": {"code": c, "title": t, "description": d}} ends the
\* call with the structured error (c, t, d) built from that body, not with
\* the fixed-table error.
C2_WrappedErrorBody ==
    (CallDone /\ response.status \in {403, 404, 429} /\ DeclaresJson
      /\ IsWrappedError(response.body.json)) =>
        /\ outcome.kind = "HTTPError"
        /\ outcome.arg.cls = "Error"
        /\ outcome.arg.code = Get(Get(response.body.json, ErrorKey), CodeKey)
        /\ outcome.arg.title = Get(Get(response.body.json, ErrorKey), TitleKey)
        /\ outcome.arg.description =
              Get(Get(response.body.json, ErrorKey), DescriptionKey)

\* the key-normalized body is a mapping with an `error` field
HasErrorField(j) ==
    /\ j # NotJSON
    /\ camel_to_snake(j).kind = "dict"
    /\ HasKey(camel_to_snake(j), ErrorKey)

\* C3: a 206 response on a path containing /transcript never ends the call
\* with a returned value: the call fails with the `error` value of the
\* key-normalized body when there is one, and with the generic "No
\* transcript available" error otherwise.
C3_TranscriptPartial ==
    (CallDone /\ response.status = 206 /\ OnTranscriptPath) =>
        /\ outcome.kind = "HTTPError"
        /\ outcome.arg =
              (IF HasErrorField(response.body.json)
               THEN Get(camel_to_snake(response.body.json), ErrorKey)
               ELSE Str(NoTranscriptMsg))

\* the body does not decode to a mapping with exactly the error fields
NotAnErrorObject(j) ==
    \/ j = NotJSON
    \/ j.kind # "dict"
    \/ \E f \in {CodeKey, TitleKey, DescriptionKey} :
           ~HasKey(camel_to_snake(j), f)
    \/ \E k \in KeysOf(camel_to_snake(j)) :
           k \notin {CodeKey, TitleKey, DescriptionKey}

TrimmedLen(k) ==
    Cardinality({i \in 1..Len(k) :
                    /\ \E j \in 1..i : k[j] \notin {" ", "\t", "\n"}
                    /\ \E j \in i..Len(k) : k[j] \notin {" ", "\t", "\n"}})

\* C5: construction fails, with the invalid-request error titled "Invalid
\* or missing API key", exactly when the api_key is empty or shorter than 8
\* characters after trimming; it then has issued no request and stored no
\* header and no base URL.  Otherwise it succeeds and stores the key under
\* x-api-key together with Accept: application/json.
C5_KeyValidation ==
    /\ (pc = "init_failed") =>
          /\ Len(api_key) = 0 \/ TrimmedLen(api_key) < 8
          /\ outcome.kind = "SupadataError"
          /\ outcome.code = "invalid-request"
          /\ outcome.title = "Invalid or missing API key"
          /\ netRequests = 0
          /\ headers = {}
          /\ base_url = <<>>
    /\ (pc = "ready") =>
          /\ Len(api_key) # 0 /\ TrimmedLen(api_key) >= 8
          /\ outcome.kind = "none"
          /\ netRequests = 0
          /\ headers = {[name |-> "x-api-key", value |-> api_key],
                        [name |-> "Accept", value |-> <<"application/json">>]}
          /\ base_url \in BaseUrls

C5_Witness ==
    /\ pc = "init_failed"
    /\ Len(api_key) = 9
    /\ TrimmedLen(api_key) = 7
    /\ outcome.kind = "SupadataError"
    /\ outcome.code = "invalid-request"
    /\ headers = {}

\* no mapping key of v, at any depth, holds an upper-case letter
RECURSIVE NoUpperKeys(_)
NoUpperKeys(v) ==
    \A i \in 1..Len(v.items) :
        /\ \A n \in 1..Len(v.items[i].k) : v.items[i].k[n] \notin Upper
        /\ NoUpperKeys(v.items[i].v)

\* w is v with every mapping key rewritten: the keys of each mapping of w
\* are the rewritten keys of the mapping of v at the same place, each
\* holding the rewritten value of an entry of v with that key
RECURSIVE Rewritten(_, _)
Rewritten(v, w) ==
    /\ w.kind = v.kind
    /\ w.val = v.val
    /\ IF v.kind = "dict"
       THEN /\ KeysOf(w) = {convert(k) : k \in KeysOf(v)}
            /\ Len(w.items) = Cardinality(KeysOf(w))
            /\ \A j \in 1..Len(w.items) : \E i \in 1..Len(v.items) :
                  /\ convert(v.items[i].k) = w.items[j].k
                  /\ Rewritten(v.items[i].v, w.items[j].v)
       ELSE /\ Len(w.items) = Len(v.items)
            /\ \A i \in 1..Len(v.items) :
                  Rewritten(v.items[i].v, w.items[i].v)

VideoBodyText == "{\"videoTitle\": \"Foo\", \"items\": [{\"viewCount\": 5}]}"

VideoBodySnake ==
    Dict(<<Entry(<<"v","i","d","e","o","_","t","i","t","l","e">>, Str(<<"F","o","o">>)),
           Entry(<<"i","t","e","m","s">>, List(<<Dict(<<Entry(<<"v","i","e","w","_","c","o","u","n","t">>, Num(<<"5">>))>>)>>))>>)

Is2xx == response.status >= 200 /\ response.status <= 299

ReturnsSnakeBody ==
    /\ outcome.kind = "return"
    /\ NoUpperKeys(outcome.value)
    /\ Rewritten(response.body.json, outcome.value)
    /\ (response.body.text = VideoBodyText => outcome.value = VideoBodySnake)

\* C6 as stated: every 2xx response, other than 206 on a path containing
\* /transcript, ends the call with the body returned, every mapping key
\* rewritten to snake-case.
C6_Every2xxReturns ==
    (CallDone /\ Is2xx /\ ~(response.status = 206 /\ OnTranscriptPath)) =>
        ReturnsSnakeBody

\* C6 as amended: every 2xx response whose body is valid JSON, other than
\* 206 on a path containing /transcript, ends the call with the body
\* returned, every mapping key rewritten to snake-case; in particular 206 on
\* a path without /transcript.
C6_Json2xxReturns ==
    (CallDone /\ Is2xx /\ ~(response.status = 206 /\ OnTranscriptPath)
      /\ response.body.json # NotJSON) =>
        ReturnsSnakeBody

C6_Witness ==
    /\ CallDone
    /\ response.status = 206
    /\ ~OnTranscriptPath
    /\ response.body.text = VideoBodyText
    /\ outcome.kind = "return"
    /\ outcome.value = VideoBodySnake

\* every mapping of w has as many entries as the mapping of v at its place
RECURSIVE SameSize(_, _)
SameSize(v, w) ==
    /\ Len(w.items) = Len(v.items)
    /\ \A i \in 1..Len(v.items) : SameSize(v.items[i].v, w.items[i].v)

\* C7: _camel_to_snake keeps keys distinct: at every depth the normalized
\* mapping has as many entries as the input mapping.
C7_KeysStayDistinct ==
    (pc \in {"normalized", "renormalized"}) => SameSize(doc, out1)

\* the key is already snake-case
IsSnake(k) == \A n \in 1..Len(k) : k[n] \in Lower \cup Digit \cup {"_"}

\* C8: normalizing a normalized value changes nothing, and a top-level key
\* that is already snake-case is still a key after normalization.
C8_Idempotent ==
    /\ (pc = "renormalized") => out2 = out1
    /\ (pc \in {"normalized", "renormalized"} /\ doc.kind = "dict") =>
          \A k \in KeysOf(doc) : IsSnake(k) => HasKey(out1, k)

C8_Witness ==
    /\ pc = "renormalized"
    /\ doc.kind = "dict"
    /\ HasKey(doc, <<"a","A","a">>)
    /\ HasKey(doc, <<"a","_">>)
    /\ HasKey(out1, <<"a","_","a","a">>)
    /\ HasKey(out1, <<"a","_">>)
    /\ out1 # doc
    /\ out2 = out1

\* C9: a call issues exactly one HTTP request and ends with exactly one
\* outcome; while it runs it has issued its one request and has produced no
\* outcome yet; construction issues no request.
C9_NoRetries ==
    /\ sent <= 1
    /\ ended <= sent
    /\ (pc = "ready" /\ sent = 1) => (ended = 1 /\ outcome.kind # "none")
    /\ InCall => /\ sent = 1
                 /\ ended = 0
                 /\ outcome.kind = "none"
    /\ (pc \in {"new", "init_failed"} \/ (pc = "ready" /\ sent = 0)) =>
          netRequests = 0

C9_Witness ==
    /\ pc = "ready"
    /\ sent = 1
    /\ ended = 1
    /\ netRequests = 1
    /\ response.status = 500
    /\ outcome.kind = "HTTPError"

\* C10: the blocks run in the order gateway, transcript, generic; the
\* gateway and transcript conditions never both hold; the block that ends
\* the call is the first whose condition holds, and generic handling is
\* reached only when neither earlier block raised.
C10_ClassificationOrder ==
    LET g == response.status \in {403, 404, 429} /\ ~DeclaresJson
        t == response.status = 206 /\ OnTranscriptPath
    IN  /\ steps \in {<<>>, <<"gateway">>, <<"gateway", "transcript">>,
                      <<"gateway", "transcript", "generic">>}
        /\ ~(g /\ t)
        /\ CallDone =>
              steps = (IF g THEN <<"gateway">>
                       ELSE IF t THEN <<"gateway", "transcript">>
                       ELSE <<"gateway", "transcript", "generic">>)
        /\ (pc = "after_gateway") => ~g
        /\ (pc = "after_transcript") => (~g /\ ~t)

C10_Witness ==
    /\ CallDone
    /\ response.status = 429
    /\ DeclaresJson
    /\ steps = <<"gateway", "transcript", "generic">>
    /\ outcome.kind = "HTTPError"

====
